---- MODULE Spec2Model ----
(***************************************************************************)
(* Model of spotify::json::codec::array_t (codec/array.hpp): the array     *)
(* codec over the three inserter strategies (SequenceInserter,             *)
(* FixedSizeSequenceInserter, AssociativeInserter), its decode and its     *)
(* encode.  The parsing cursor (decoding_context, decoding_helpers.hpp),   *)
(* the output sink (encoding_context) and the inner codec are the          *)
(* collaborators the header includes; they are modelled from the           *)
(* specification's sections 4.2 and 6.                                     *)
(*                                                                         *)
(* Text is a sequence of one-character strings; elements are integers, and *)
(* the inner codec converts between an element and its digit character.    *)
(***************************************************************************)
EXTENDS Integers, Sequences, FiniteSets, TLC

\* ---------------------------------------------------------------- bounds
MaxLen  == 5    \* longest input text handed to decode
MaxElem == 2    \* element values are 1..MaxElem
MaxN    == 2    \* largest std::array size
MaxSize == 3    \* longest growable container handed to encode

VARIABLES
  call,      \* which entry point the caller used: "decode" or "encode"
  pc,        \* position in decode / encode
  kind,      \* which Inserter<T> the codec was composed with
  N,         \* container.size() of the std::array target (0 for the others)
  input,     \* decoding_context: the text
  position,  \* decoding_context: number of characters consumed
  state,     \* Inserter::state threaded through decode
  output,    \* the container decode builds
  error,     \* the exception decode raised, "none" when none
  returned,  \* decode returned its container
  calls,     \* history: inner decode / insert / validate calls, in order
  decoded,   \* history: the elements the inner codec produced, in order
  writes,    \* history: the indices container[pos] = value was applied to
  array,     \* the container handed to encode
  iter,      \* the order in which encode's range-for visits array
  idx,       \* encode's loop position in iter
  elided,    \* the elements the inner codec's should_encode rejects
  prefix,    \* what the encoding_context held before encode
  sink       \* encoding_context: the text written so far

vars == <<call, pc, kind, N, input, position, state, output, error, returned,
          calls, decoded, writes, array, iter, idx, elided, prefix, sink>>

decodeVars == <<input, position, state, output, error, returned, calls,
                decoded, writes>>
encodeVars == <<array, iter, idx, elided, prefix, sink>>

\* ------------------------------------------------------------ vocabulary
Kinds == {"Sequence", "FixedSize", "Associative"}

Elem == 1..MaxElem

DigitChars == <<"1", "2", "3", "4", "5", "6", "7", "8", "9">>

Alphabet == {"[", "]", ",", " "} \cup {DigitChars[e] : e \in Elem}

SeqsUpTo(S, n) == UNION {[1..k -> S] : k \in 0..n}

\* init_state of the three inserters
InitState == 0

\* what `object_type output;` leaves in a slot of a std::array that no
\* insert has written yet
DefaultValue == 0

\* ------------------------------------------------------------ inner codec
IsDigit(c) == \E e \in Elem : DigitChars[e] = c

ValueOf(c) == CHOOSE e \in Elem : DigitChars[e] = c

\* decoding_context: one-character lookahead, "EOF" at the end of the text
Peek(inp, pos) == IF pos < Len(inp) THEN inp[pos + 1] ELSE "EOF"

RECURSIVE SkipWhitespace(_, _)
SkipWhitespace(inp, pos) ==
  IF Peek(inp, pos) = " " THEN SkipWhitespace(inp, pos + 1) ELSE pos

\* inner_codec.decode(context): one element, or an element error
InnerDecode(inp, pos) ==
  IF IsDigit(Peek(inp, pos))
    THEN [ok |-> TRUE, value |-> ValueOf(Peek(inp, pos)), position |-> pos + 1]
    ELSE [ok |-> FALSE, value |-> DefaultValue, position |-> pos]

\* inner_codec.encode(context, element): the text it appends
InnerEncode(e) == <<DigitChars[e]>>

\* detail::should_encode(inner_codec, element)
ShouldEncode(e) == e \notin elided

\* encoding_context::append_or_replace(replace, with)
AppendOrReplace(buf, replace, with) ==
  IF Len(buf) > 0 /\ buf[Len(buf)] = replace
    THEN [buf EXCEPT ![Len(buf)] = with]
    ELSE Append(buf, with)

\* -------------------------------------------------------------- inserters
SequenceInsertFront(st, container, value) ==
  [err |-> "none", state |-> InitState,
   container |-> <<value>> \o container, wrote |-> <<>>]

SequenceInsert(st, container, value) ==
  [err |-> "none", state |-> InitState,
   container |-> Append(container, value), wrote |-> <<>>]

SequenceValidate(st, container) == "none"

FixedSizeInsertOffByOne(pos, container, value) ==
  IF pos > Len(container)
    THEN [err |-> "too_many", state |-> pos, container |-> container,
          wrote |-> <<>>]
    ELSE [err |-> "none", state |-> pos + 1,
          container |-> IF pos < Len(container)
                          THEN [container EXCEPT ![pos + 1] = value]
                          ELSE container,
          wrote |-> <<pos>>]

FixedSizeInsertNextSlot(pos, container, value) ==
  IF pos >= Len(container)
    THEN [err |-> "too_many", state |-> pos, container |-> container,
          wrote |-> <<>>]
    ELSE [err |-> "none", state |-> pos + 1,
          container |-> IF pos + 1 < Len(container)
                          THEN [container EXCEPT ![pos + 2] = value]
                          ELSE container,
          wrote |-> <<pos + 1>>]

FixedSizeInsert(pos, container, value) ==
  IF pos >= Len(container)
    THEN [err |-> "too_many", state |-> pos, container |-> container,
          wrote |-> <<>>]
    ELSE [err |-> "none", state |-> pos + 1,
          container |-> [container EXCEPT ![pos + 1] = value],
          wrote |-> <<pos>>]

FixedSizeValidateAtMost(pos, container) ==
  IF pos > Len(container) THEN "too_few" ELSE "none"

FixedSizeValidate(pos, container) ==
  IF pos # Len(container) THEN "too_few" ELSE "none"

AssociativeInsertReplace(st, container, value) ==
  [err |-> "none", state |-> InitState, container |-> {value}, wrote |-> <<>>]

AssociativeInsertRejectDuplicate(st, container, value) ==
  [err |-> IF value \in container THEN "element" ELSE "none",
   state |-> InitState, container |-> container \cup {value}, wrote |-> <<>>]

AssociativeInsert(st, container, value) ==
  [err |-> "none", state |-> InitState,
   container |-> container \cup {value}, wrote |-> <<>>]

AssociativeValidate(st, container) == "none"

\* Inserter<T>: the strategy the container type selects
Insert(k, st, container, value) ==
  CASE k = "Sequence"    -> SequenceInsert(st, container, value)
    [] k = "FixedSize"   -> FixedSizeInsert(st, container, value)
    [] k = "Associative" -> AssociativeInsert(st, container, value)

Validate(k, st, container) ==
  CASE k = "Sequence"    -> SequenceValidate(st, container)
    [] k = "FixedSize"   -> FixedSizeValidate(st, container)
    [] k = "Associative" -> AssociativeValidate(st, container)

\* `object_type output;`
EmptyContainer(k, n) ==
  CASE k = "Sequence"    -> <<>>
    [] k = "FixedSize"   -> [i \in 1..n |-> DefaultValue]
    [] k = "Associative" -> {}

\* ------------------------------------------------------------------ Init
Inputs == SeqsUpTo(Alphabet, MaxLen)

\* the orders in which a range-for may visit the members of a set
Orders(S) ==
  {f \in [1..Cardinality(S) -> S] : \A e \in S : \E i \in DOMAIN f : f[i] = e}

Containers(k) ==
  CASE k = "Sequence"    -> SeqsUpTo(Elem, MaxSize)
    [] k = "FixedSize"   -> SeqsUpTo(Elem, MaxN)
    [] k = "Associative" -> SUBSET Elem

Prefixes == {<<>>, <<",">>}

InitDecode ==
  /\ call = "decode"
  /\ pc = "decode"
  /\ kind \in Kinds
  /\ N \in (IF kind = "FixedSize" THEN 0..MaxN ELSE {0})
  /\ input \in Inputs
  /\ array = <<>> /\ iter = <<>> /\ elided = {} /\ prefix = <<>> /\ sink = <<>>

InitEncode ==
  /\ call = "encode"
  /\ pc = "encode"
  /\ kind \in Kinds
  /\ array \in Containers(kind)
  /\ N = (IF kind = "FixedSize" THEN Len(array) ELSE 0)
  /\ iter \in (IF kind = "Associative" THEN Orders(array) ELSE {array})
  /\ elided \in SUBSET Elem
  /\ prefix \in Prefixes
  /\ sink = prefix
  /\ input = <<>>

Init ==
  /\ (InitDecode \/ InitEncode)
  /\ position = 0
  /\ state = InitState
  /\ output = <<>>
  /\ error = "none"
  /\ returned = FALSE
  /\ calls = <<>>
  /\ decoded = <<>>
  /\ writes = <<>>
  /\ idx = 0

\* ---------------------------------------------------------------- decode
\* the exception leaves decode: nothing else of the call runs
Raise(err) == error' = err /\ pc' = "done"

\* array_t::decode, up to the call of advance_past_comma_separated
DecodeBegin ==
  /\ pc = "decode"
  /\ output' = EmptyContainer(kind, N)
  /\ state' = InitState
  /\ pc' = "open"
  /\ UNCHANGED <<call, kind, N, input, position, error, returned, calls,
                 decoded, writes>>
  /\ UNCHANGED encodeVars

\* advance_past_comma_separated: the open marker, then an empty array or
\* the first element
AdvanceOpen ==
  /\ pc = "open"
  /\ IF Peek(input, position) # "["
       THEN Raise("framing") /\ UNCHANGED position
       ELSE LET p == SkipWhitespace(input, position + 1) IN
            IF Peek(input, p) = "]"
              THEN position' = p + 1 /\ pc' = "validate" /\ UNCHANGED error
              ELSE position' = p /\ pc' = "element" /\ UNCHANGED error
  /\ UNCHANGED <<call, kind, N, input, state, output, returned, calls,
                 decoded, writes>>
  /\ UNCHANGED encodeVars

OnElementDropInsert ==
  /\ pc = "element"
  /\ LET r == InnerDecode(input, position) IN
     IF ~r.ok
       THEN /\ Raise("element")
            /\ calls' = Append(calls, <<"decode", position>>)
            /\ UNCHANGED <<position, state, output, decoded, writes>>
       ELSE /\ calls' = Append(calls, <<"decode", position>>)
            /\ decoded' = Append(decoded, r.value)
            /\ position' = r.position
            /\ pc' = "separator"
            /\ UNCHANGED <<state, output, writes, error>>
  /\ UNCHANGED <<call, kind, N, input, returned>>
  /\ UNCHANGED encodeVars

\* the lambda decode hands to advance_past_comma_separated
OnElement ==
  /\ pc = "element"
  /\ LET r == InnerDecode(input, position) IN
     IF ~r.ok
       THEN /\ Raise("element")
            /\ calls' = Append(calls, <<"decode", position>>)
            /\ UNCHANGED <<position, state, output, decoded, writes>>
       ELSE LET ins == Insert(kind, state, output, r.value) IN
            /\ calls' = calls \o <<<<"decode", position>>, <<"insert", r.value>>>>
            /\ decoded' = Append(decoded, r.value)
            /\ position' = r.position
            /\ writes' = writes \o ins.wrote
            /\ IF ins.err # "none"
                 THEN Raise(ins.err) /\ UNCHANGED <<state, output>>
                 ELSE /\ state' = ins.state
                      /\ output' = ins.container
                      /\ pc' = "separator"
                      /\ UNCHANGED error
  /\ UNCHANGED <<call, kind, N, input, returned>>
  /\ UNCHANGED encodeVars

\* advance_past_comma_separated: what follows an element
AfterElement ==
  /\ pc = "separator"
  /\ LET p == SkipWhitespace(input, position)
         c == Peek(input, p)
     IN CASE c = "," ->
               LET q == SkipWhitespace(input, p + 1) IN
               IF Peek(input, q) = "]"
                 THEN Raise("framing") /\ position' = q
                 ELSE position' = q /\ pc' = "element" /\ UNCHANGED error
          [] c = "]" -> position' = p + 1 /\ pc' = "validate" /\ UNCHANGED error
          [] OTHER -> Raise("framing") /\ position' = p
  /\ UNCHANGED <<call, kind, N, input, state, output, returned, calls,
                 decoded, writes>>
  /\ UNCHANGED encodeVars

\* array_t::decode: Inserter::validate(context, state, output)
ValidateOutput ==
  /\ pc = "validate"
  /\ calls' = Append(calls, <<"validate", state>>)
  /\ LET err == Validate(kind, state, output) IN
     IF err # "none" THEN Raise(err) ELSE pc' = "return" /\ UNCHANGED error
  /\ UNCHANGED <<call, kind, N, input, position, state, output, returned,
                 decoded, writes>>
  /\ UNCHANGED encodeVars

\* array_t::decode: return output
Return ==
  /\ pc = "return"
  /\ returned' = TRUE
  /\ pc' = "done"
  /\ UNCHANGED <<call, kind, N, input, position, state, output, error, calls,
                 decoded, writes>>
  /\ UNCHANGED encodeVars

\* ---------------------------------------------------------------- encode
\* array_t::encode: context.append('[')
EncodeBegin ==
  /\ pc = "encode"
  /\ sink' = Append(sink, "[")
  /\ idx' = 1
  /\ pc' = "encode_loop"
  /\ UNCHANGED <<call, kind, N, array, iter, elided, prefix>>
  /\ UNCHANGED decodeVars

EncodeElementAlwaysSeparate ==
  /\ pc = "encode_loop"
  /\ idx <= Len(iter)
  /\ sink' = IF ShouldEncode(iter[idx])
               THEN Append(sink \o InnerEncode(iter[idx]), ",")
               ELSE Append(sink, ",")
  /\ idx' = idx + 1
  /\ UNCHANGED <<call, pc, kind, N, array, iter, elided, prefix>>
  /\ UNCHANGED decodeVars

\* array_t::encode: one iteration of the range-for
EncodeElement ==
  /\ pc = "encode_loop"
  /\ idx <= Len(iter)
  /\ sink' = IF ShouldEncode(iter[idx])
               THEN Append(sink \o InnerEncode(iter[idx]), ",")
               ELSE sink
  /\ idx' = idx + 1
  /\ UNCHANGED <<call, pc, kind, N, array, iter, elided, prefix>>
  /\ UNCHANGED decodeVars

\* array_t::encode: context.append_or_replace(',', ']')
EncodeEnd ==
  /\ pc = "encode_loop"
  /\ idx > Len(iter)
  /\ sink' = AppendOrReplace(sink, ",", "]")
  /\ pc' = "encoded"
  /\ UNCHANGED <<call, kind, N, array, iter, idx, elided, prefix>>
  /\ UNCHANGED decodeVars

\* The text encode appended is handed to decode of the same codec.
RoundTrip ==
  /\ pc = "encoded"
  /\ input' = SubSeq(sink, Len(prefix) + 1, Len(sink))
  /\ position' = 0
  /\ pc' = "decode"
  /\ UNCHANGED <<call, kind, N, state, output, error, returned, calls,
                 decoded, writes>>
  /\ UNCHANGED encodeVars

Next ==
  \/ DecodeBegin
  \/ AdvanceOpen
  \/ OnElement
  \/ AfterElement
  \/ ValidateOutput
  \/ Return
  \/ EncodeBegin
  \/ EncodeElement
  \/ EncodeEnd
  \/ RoundTrip

Spec == Init /\ [][Next]_vars

\* ------------------------------------------------- vocabulary of the claims
Strip(s) == SelectSeq(s, LAMBDA c : c # " ")

\* the elements a text holds, left to right
Elements(s) ==
  LET d == SelectSeq(s, IsDigit) IN [i \in 1..Len(d) |-> ValueOf(d[i])]

\* the index in s of its i-th element
DigitPos(s, i) ==
  CHOOSE p \in 1..Len(s) :
    IsDigit(s[p]) /\ Cardinality({q \in 1..p : IsDigit(s[q])}) = i

RECURSIVE Joined(_)
Joined(es) ==
  IF es = <<>> THEN <<>>
  ELSE IF Len(es) = 1 THEN InnerEncode(es[1])
  ELSE InnerEncode(es[1]) \o <<",">> \o Joined(Tail(es))

\* '[' e1 ',' e2 ',' ... ',' en ']'
Framed(es) == <<"[">> \o Joined(es) \o <<"]">>

\* '[' element (',' element)* ']' or '[' ']', whitespace between the tokens
WellFramed(s) ==
  /\ Len(s) >= 2
  /\ s[1] = "["
  /\ s[Len(s)] = "]"
  /\ Strip(s) = Framed(Elements(s))

\* s starts with '[' e1 ',' ... ',' ek
IsLead(s, k) ==
  /\ 2 * k <= Len(s)
  /\ Len(s) >= 1 /\ s[1] = "["
  /\ \A i \in 1..k : IsDigit(s[2 * i]) /\ (i > 1 => s[2 * i - 1] = ",")

\* the number of elements that precede the first departure from the framing
LeadCount(s) == CHOOSE k \in 0..Len(s) : IsLead(s, k) /\ ~IsLead(s, k + 1)

\* k >= 1 elements, then a separator immediately followed by the close marker
TrailingComma(inp) ==
  /\ Len(inp) >= 1 /\ inp[1] = "["
  /\ LET s == Strip(inp)
         k == LeadCount(s)
     IN /\ k >= 1
        /\ Len(s) >= 2 * k + 2
        /\ s[2 * k + 1] = ","
        /\ s[2 * k + 2] = "]"

\* k >= 1 elements, the last followed by something other than ',' or ']'
MissingSeparator(inp) ==
  /\ Len(inp) >= 1 /\ inp[1] = "["
  /\ LET s == Strip(inp)
         k == LeadCount(s)
     IN /\ k >= 1
        /\ Len(s) >= 2 * k + 1
        /\ s[2 * k + 1] \notin {",", "]"}

\* the elements encode writes: those should_encode accepts
Kept(es) == SelectSeq(es, ShouldEncode)

Range(f) == {f[i] : i \in DOMAIN f}

InDecode == pc \in {"open", "element", "separator", "validate", "return", "done"}

Ops(log) == [i \in 1..Len(log) |-> log[i][1]]

Count(log, op) == Cardinality({i \in 1..Len(log) : log[i][1] = op})

\* ------------------------------------------------------------------ claims

\* C1 as stated: decoding the text encode produced for an ordered-growable
\* container C yields a container equal to C.
C1_RoundTripEqual ==
  (call = "encode" /\ kind = "Sequence" /\ pc = "done") =>
    (returned /\ output = array)

\* C1, amended: decoding the text encode produced for an ordered-growable
\* container C succeeds and yields the elements of C that the inner codec
\* does not elide, in C's order; it equals C when no element of C is elided.
C1_RoundTripKept ==
  (call = "encode" /\ kind = "Sequence" /\ pc = "done") =>
    /\ returned /\ error = "none"
    /\ output = Kept(array)
    /\ (Range(array) \cap elided = {} => output = array)

C1_Witness ==
  /\ call = "encode" /\ kind = "Sequence" /\ pc = "done" /\ returned
  /\ array = <<2, 1, 2>> /\ elided = {} /\ output = <<2, 1, 2>>

\* C2: a std::array target of size N decodes successfully only from an array
\* of exactly N elements, and then slot i holds the i-th decoded element; a
\* well-framed array of fewer than N elements fails with "too few", one of
\* more than N elements with "too many".
C2_FixedArity ==
  (call = "decode" /\ kind = "FixedSize") =>
    /\ returned =>
         LET consumed == SubSeq(input, 1, position) IN
         /\ error = "none"
         /\ WellFramed(consumed)
         /\ Len(Elements(consumed)) = N
         /\ output = Elements(consumed)
    /\ (pc = "done" /\ WellFramed(input)) =>
         LET es == Elements(input) IN
         /\ Len(es) = N => (returned /\ output = es)
         /\ Len(es) < N => (~returned /\ error = "too_few")
         /\ Len(es) > N => (~returned /\ error = "too_many")

C2_Witness ==
  /\ call = "decode" /\ kind = "FixedSize" /\ N = 2 /\ returned
  /\ input = <<"[", "2", ",", "1", "]">> /\ output = <<2, 1>>

NoInnerDecode == Count(calls, "decode") = 0

IsEmptyOutput ==
  IF kind = "Associative" THEN output = {} ELSE Len(output) = 0

\* C3 as stated: decoding "[]" into any container kind succeeds, yields an
\* empty container and calls the inner codec's decode zero times.
C3_EmptyAnyKind ==
  (call = "decode" /\ input = <<"[", "]">> /\ pc = "done") =>
    (returned /\ IsEmptyOutput /\ NoInnerDecode)

\* C3, amended: decoding "[]" never calls the inner codec's decode; into a
\* growable or set target, or a std::array of size 0, it succeeds with an
\* empty container; into a std::array of size N > 0 it fails with "too few".
C3_EmptyArray ==
  (call = "decode" /\ input = <<"[", "]">> /\ pc = "done") =>
    /\ NoInnerDecode
    /\ IF kind = "FixedSize" /\ N > 0
         THEN ~returned /\ error = "too_few"
         ELSE returned /\ error = "none" /\ IsEmptyOutput

C3_Witness ==
  /\ call = "decode" /\ input = <<"[", "]">> /\ pc = "done"
  /\ kind = "Associative" /\ returned /\ output = {} /\ calls = <<<<"validate", 0>>>>

\* C4: encode appends exactly '[' , the encodings of the non-elided elements
\* in iteration order joined by single ',' , and ']': no ',' stands before the
\* closing ']', and an empty or fully elided container gives "[]".
C4_EncodeFraming ==
  (call = "encode" /\ pc \notin {"encode", "encode_loop"}) =>
    /\ sink = prefix \o Framed(Kept(iter))
    /\ sink[Len(sink)] = "]" /\ sink[Len(sink) - 1] # ","
    /\ Kept(iter) = <<>> => sink = prefix \o <<"[", "]">>

C4_Witness ==
  /\ call = "encode" /\ pc = "encoded" /\ kind = "Sequence"
  /\ iter = <<1, 2, 1>> /\ elided = {2} /\ prefix = <<",">>
  /\ sink = <<",", "[", "1", ",", "1", "]">>

\* C5 as stated: decoding the text encode produced for a set C yields a
\* container set-equal to C.
C5_RoundTripSetEqual ==
  (call = "encode" /\ kind = "Associative" /\ pc = "done") =>
    (returned /\ output = array)

\* C5, amended: decoding the text encode produced for a set C succeeds and
\* yields the set of the members of C that the inner codec does not elide;
\* it is set-equal to C when no member of C is elided.
C5_RoundTripSetKept ==
  (call = "encode" /\ kind = "Associative" /\ pc = "done") =>
    /\ returned /\ error = "none"
    /\ output = array \ elided
    /\ (array \cap elided = {} => output = array)

C5_Witness ==
  /\ call = "encode" /\ kind = "Associative" /\ pc = "done" /\ returned
  /\ array = {1, 2} /\ iter = <<2, 1>> /\ elided = {} /\ output = {1, 2}

\* C6 as stated: for any target kind, a trailing comma and a missing
\* separator each make decode fail with a framing error.
C6_FramingAnyKind ==
  (call = "decode" /\ pc = "done"
     /\ (TrailingComma(input) \/ MissingSeparator(input))) =>
    (~returned /\ error = "framing")

\* C6, amended: a trailing comma and a missing separator each make decode
\* fail; the error is a framing error for growable and set targets and for a
\* std::array of size N when at most N elements precede the violation, and
\* the "too many" arity error when more than N elements precede it.
C6_FramingUnlessArity ==
  (call = "decode" /\ pc = "done"
     /\ (TrailingComma(input) \/ MissingSeparator(input))) =>
    /\ ~returned
    /\ IF kind = "FixedSize" /\ LeadCount(Strip(input)) > N
         THEN error = "too_many"
         ELSE error = "framing"

C6_Witness ==
  /\ call = "decode" /\ pc = "done" /\ kind = "FixedSize" /\ N = 2
  /\ input = <<"[", "1", " ", "2", "]">> /\ error = "framing" /\ ~returned

\* C7: when decode succeeds the inner codec's decode was called exactly once
\* per element position of the array, left to right, and each call was
\* followed by exactly one insert of that element before the next decode.
C7_OneDecodePerElement ==
  returned =>
    LET consumed == SubSeq(input, 1, position)
        es == Elements(consumed)
        k == Len(es)
    IN /\ WellFramed(consumed)
       /\ decoded = es
       /\ Len(calls) = 2 * k + 1
       /\ \A i \in 1..k :
            /\ calls[2 * i - 1] = <<"decode", DigitPos(consumed, i) - 1>>
            /\ calls[2 * i] = <<"insert", es[i]>>
       /\ calls[2 * k + 1][1] = "validate"

C7_Witness ==
  /\ call = "decode" /\ returned /\ kind = "Associative"
  /\ input = <<"[", "2", ",", "1", "]">>
  /\ calls = <<<<"decode", 1>>, <<"insert", 2>>, <<"decode", 3>>,
               <<"insert", 1>>, <<"validate", 0>>>>

\* C8: into a growable or set target every well-framed array of well-formed
\* elements decodes successfully, whatever its element count; repeated
\* elements are no error for a set target, which ends up holding exactly the
\* distinct decoded elements.
C8_AnyCount ==
  (call = "decode" /\ kind \in {"Sequence", "Associative"}
     /\ pc = "done" /\ WellFramed(input)) =>
    /\ returned /\ error = "none"
    /\ kind = "Sequence" => output = Elements(input)
    /\ kind = "Associative" => output = Range(Elements(input))

C8_Witness ==
  /\ call = "decode" /\ kind = "Associative" /\ pc = "done" /\ returned
  /\ input = <<"[", "1", ",", "1", "]">> /\ output = {1}

C9_Aborted ==
  /\ error # "none" => (pc = "done" /\ ~returned)
  /\ error \in {"framing", "element", "too_many"} =>
       Count(calls, "validate") = 0
  /\ error = "element" =>
       (calls[Len(calls)][1] = "decode" /\ Len(decoded) = Count(calls, "insert"))
  /\ error = "framing" => Count(calls, "decode") = Count(calls, "insert")
  /\ error = "too_many" =>
       /\ kind = "FixedSize"
       /\ Len(calls) = 2 * (N + 1)
       /\ calls[Len(calls)][1] = "insert"
       /\ Len(writes) = N
  /\ error = "too_few" =>
       /\ kind = "FixedSize"
       /\ calls[Len(calls)][1] = "validate"
       /\ Count(calls, "validate") = 1
       /\ position >= 1 /\ input[position] = "]"

\* C9: every decode error aborts the call where it arises: once an error is
\* raised no inner decode, insert or validate call follows and no container
\* is returned; "too many" is raised at the (N+1)-th insert, and "too few"
\* only by the final validation, after the close marker was consumed.
C9_ErrorsAbort ==
  /\ []C9_Aborted
  /\ [][error # "none" =>
          UNCHANGED <<calls, decoded, writes, output, returned, error>>]_vars

C9_Witness ==
  /\ error = "too_many" /\ N = 1 /\ pc = "done"
  /\ input = <<"[", "1", ",", "2", "]">>
  /\ Ops(calls) = <<"decode", "insert", "decode", "insert">>

\* C10: while decode fills a std::array of size N, 0 <= pos <= N, pos is the
\* number of successful inserts, slots 0..pos-1 hold the decoded elements in
\* input order, slots pos..N-1 hold what default-initialization left, and no
\* write goes to an index >= N; for the other targets the state stays at its
\* initial value.
C10_StateInvariant ==
  /\ (kind = "FixedSize" /\ InDecode) =>
       /\ 0 <= state /\ state <= N
       /\ writes = [i \in 1..state |-> i - 1]
       /\ \A w \in 1..Len(writes) : writes[w] < N
       /\ Len(output) = N
       /\ \A i \in 1..N :
            output[i] = IF i <= state THEN decoded[i] ELSE DefaultValue
  /\ kind # "FixedSize" => state = InitState

C10_Witness ==
  /\ kind = "FixedSize" /\ N = 2 /\ pc = "separator" /\ state = 1
  /\ output = <<2, DefaultValue>> /\ writes = <<0>>

====
